---- MODULE Spec2Model ----
(***************************************************************************)
(* Intent-classification-and-routing pipeline of the semantic-kernel       *)
(* chatbot: IntentDetectionPlugin.detect_intent (plugins/intent_detection) *)
(* and the HTTP handlers of server.py, with the Completion Service, the    *)
(* Retrieval Service and the plugins as nondeterministic collaborators.    *)
(*                                                                         *)
(* Strings are modelled as sequences of tokens (Text): whitespace, the     *)
(* three-backtick marker, a piece of plain text, or one JSON value.        *)
(* Numbers with a fraction are kept in hundredths (0.5 is 50).             *)
(***************************************************************************)
EXTENDS Integers, Sequences, FiniteSets, TLC

VARIABLES
    endpoint,     \* the route of the request being handled
    message,      \* request.message as received
    user_input,   \* request.message.strip()
    pc,           \* position of the handler
    svc,          \* state of the Completion Service stream of the current call
    outcomes,     \* what detect_intent did with each reply it was handed
    reply,        \* response.content of the reply detect_intent handled last
    value,        \* what detect_intent returned (FunctionResult.value)
    calls,        \* every call made to an external collaborator, in order
    failure,      \* the exception a collaborator raised, and in which call
    got,          \* what the dispatch call handed back to the handler
    response,     \* what the handler produced for the HTTP caller
    lifespan,     \* where the lifespan handler of the application is
    kernel,       \* the locals of initialize_kernel_and_agents
    handles,      \* the globals SK_KERNEL, CHAT_AGENT, RETRIEVAL_AGENT
    tasks,        \* the locals of every request handler in flight
    agent,        \* one call of CustomChatCompletionAgent and its consumer
    shell         \* the chat loop of main.py

\* the request followed step by step
request == <<endpoint, message, user_input, pc, svc, outcomes, reply, value,
             calls, failure, got, response>>

\* the process: startup, the shared handles, the concurrent handlers
server == <<lifespan, kernel, handles, tasks>>

\* the agent called on its own, and the command-line loop
aside == <<agent, shell>>

vars == <<request, server, aside>>

----------------------------------------------------------------------------
(* Bounds of the model *)

\* most replies one Completion Service stream yields to detect_intent
MaxReplies == 2

----------------------------------------------------------------------------
(* Text *)

WS == [t |-> "ws"]
Fence == [t |-> "fence"]
Txt(s) == [t |-> "text", s |-> s]
Json(v) == [t |-> "json", val |-> v]

RECURSIVE lstrip(_)
lstrip(s) == IF s # <<>> /\ Head(s) = WS THEN lstrip(Tail(s)) ELSE s

RECURSIVE rstrip(_)
rstrip(s) ==
    IF s # <<>> /\ s[Len(s)] = WS THEN rstrip(SubSeq(s, 1, Len(s) - 1)) ELSE s

\* str.strip()
strip(s) == rstrip(lstrip(s))

\* raw_content.startswith("```") and raw_content.endswith("```")
IsFenced(s) == s # <<>> /\ s[1] = Fence /\ s[Len(s)] = Fence

\* raw_content[3:-3].strip()
Unfence(s) == strip(SubSeq(s, 2, Len(s) - 1))

----------------------------------------------------------------------------
(* JSON values *)

JNull == [ty |-> "null"]
JStr(s) == [ty |-> "str", s |-> s]
JNum(n) == [ty |-> "num", n |-> n]
JArr == [ty |-> "array"]
\* a key the object does not have
Absent == [ty |-> "absent"]
JObj(i, c, p, y) ==
    [ty |-> "object", intent |-> i, confidence |-> c, plugin |-> p, city |-> y]

\* dict.get(key, default)
Get(obj, key, default) == IF obj[key] = Absent THEN default ELSE obj[key]

\* json.dumps of a mapping
json_dumps(obj) == <<Json(obj)>>

\* json.loads: the value, or JSONDecodeError
json_loads(s) ==
    LET body == strip(s)
    IN  IF Len(body) = 1 /\ body[1].t = "json"
        THEN [ok |-> TRUE, val |-> body[1].val]
        ELSE [ok |-> FALSE]

----------------------------------------------------------------------------
(* CustomChatCompletionAgent *)

ErrServiceUnavailable ==
    "Error: Required chat service is not available. Please try again later."
ErrUnexpected == "Error: An unexpected issue occurred. Please try again."
ErrInvalidHistory ==
    "Error: Invalid input provided. Please provide a valid chat history."

\* texts of the model that contain the literal "Error:"
MarkerCity == "Error: no such city"
ServiceErrorText == "Error: rate limit exceeded"
MarkerStrings ==
    {ErrServiceUnavailable, ErrUnexpected, ErrInvalidHistory, MarkerCity,
     ServiceErrorText}

\* exceptions the Completion Service can raise inside super().invoke
ServiceNotFound ==
    [type |-> "KernelServiceNotFoundError", text |-> "no service 'chat_service'"]
ServiceCrash == [type |-> "Exception", text |-> "connection reset by peer"]
ServiceFailures == {ServiceNotFound, ServiceCrash}

\* an "Error:" message that quotes the exception
InvokeErrorMessage_WithCause(exc) == <<Txt("Error: "), Txt(exc.text)>>

\* the message CustomChatCompletionAgent.invoke yields in place of an exception
InvokeErrorMessage(exc) ==
    IF exc.type = "KernelServiceNotFoundError"
    THEN <<Txt(ErrServiceUnavailable)>>
    ELSE <<Txt(ErrUnexpected)>>

----------------------------------------------------------------------------
(* IntentDetectionPlugin.detect_intent *)

PyNone == [kind |-> "none"]
PyStr(text) == [kind |-> "str", text |-> text]

\* 0.5, the confidence of a redirected or default record
DefaultConfidence == 50

ValidIntents ==
    {JStr("general_chat"), JStr("document_retrieval"), JStr("plugin_usage"),
     JStr("unknown")}

\* isinstance(confidence, (int, float))
IsNumber(v) == v.ty = "num"

JsonHasMarker(v) ==
    \/ v.ty = "str" /\ v.s \in MarkerStrings
    \/ /\ v.ty = "object"
       /\ \E k \in {"intent", "confidence", "plugin", "city"} :
              v[k].ty = "str" /\ v[k].s \in MarkerStrings

\* "Error:" in raw_content
ContainsError(s) ==
    \E i \in 1..Len(s) :
        \/ s[i].t = "text" /\ s[i].s \in MarkerStrings
        \/ s[i].t = "json" /\ JsonHasMarker(s[i].val)

\* the record of the except clause of detect_intent
DefaultRecord ==
    JObj(JStr("general_chat"), JNum(DefaultConfidence), JStr("unknown"), JNull)

\* Redirect lowering the confidence of an unknown intent and keeping the intent
Redirect_ConfidenceOnly(intent, confidence, plugin, city) ==
    IF intent = JStr("unknown")
    THEN JObj(intent, JNum(DefaultConfidence), plugin, city)
    ELSE JObj(intent, confidence, plugin, city)

\* Redirect with the city kept for plugin_usage with weather only
Redirect_CityForWeatherOnly(intent, confidence, plugin, city) ==
    LET kept == IF intent = JStr("plugin_usage") /\ plugin = JStr("weather")
                THEN city
                ELSE JNull
    IN  IF intent = JStr("unknown")
        THEN JObj(JStr("general_chat"), JNum(DefaultConfidence), plugin, kept)
        ELSE JObj(intent, confidence, plugin, kept)

\* Redirect with a plugin outside the four names replaced by unknown
Redirect_KnownPlugin(intent, confidence, plugin, city) ==
    LET known == IF plugin \in {JStr("weather"), JStr("math"), JStr("time")}
                 THEN plugin
                 ELSE JStr("unknown")
    IN  IF intent = JStr("unknown")
        THEN JObj(JStr("general_chat"), JNum(DefaultConfidence), known, city)
        ELSE JObj(intent, confidence, known, city)

\* the redirect left out: the record carries the intent of the reply
Redirect_Skipped(intent, confidence, plugin, city) ==
    JObj(intent, confidence, plugin, city)

\* Redirect with the reply's confidence kept for a redirected intent
Redirect_KeepsConfidence(intent, confidence, plugin, city) ==
    IF intent = JStr("unknown")
    THEN JObj(JStr("general_chat"), confidence, plugin, city)
    ELSE JObj(intent, confidence, plugin, city)

\* "Redirect unknown intents to general chat"
Redirect(intent, confidence, plugin, city) ==
    IF intent = JStr("unknown")
    THEN JObj(JStr("general_chat"), JNum(DefaultConfidence), plugin, city)
    ELSE JObj(intent, confidence, plugin, city)

\* the inner try of detect_intent, for one cleaned reply
ParseReply(raw) ==
    LET parsed == json_loads(raw)
    IN  IF ~parsed.ok
        THEN [kind |-> "continue", why |-> "decode"]
        ELSE IF parsed.val.ty # "object"
        THEN [kind |-> "except"]
        ELSE LET intent == Get(parsed.val, "intent", JStr("unknown"))
                 confidence == Get(parsed.val, "confidence", JNum(0))
                 plugin == Get(parsed.val, "plugin", JStr("unknown"))
                 city == Get(parsed.val, "city", JNull)
             IN  IF intent.ty \in {"array", "object"}
                 THEN [kind |-> "except"]
                 ELSE IF intent \notin ValidIntents \/ ~IsNumber(confidence)
                 THEN [kind |-> "continue", why |-> "schema"]
                 ELSE [kind |-> "return",
                       value |-> PyStr(json_dumps(
                                    Redirect(intent, confidence, plugin, city)))]

\* one iteration of the async for of detect_intent
HandleReply(content) ==
    LET stripped == strip(content)
        raw == IF IsFenced(stripped) THEN Unfence(stripped) ELSE stripped
    IN  IF ContainsError(raw)
        THEN [kind |-> "continue", why |-> "marker"]
        ELSE ParseReply(raw)

\* what detect_intent returns once an iteration ends the loop
LoopResult(step) ==
    IF step.kind = "return" THEN step.value ELSE PyStr(json_dumps(DefaultRecord))

\* what detect_intent returns when the stream ends inside the loop
ExhaustedResult == PyNone

----------------------------------------------------------------------------
(* What the collaborators can send *)

IntentNames ==
    {"general_chat", "document_retrieval", "plugin_usage", "unknown", "bogus"}
Confidences == {JNum(90), JNum(10), JStr("high")}
PluginNames == {"weather", "math", "time", "unknown", "stocks"}
Cities == {JNull, JStr("Tokyo"), JStr(""), JStr(MarkerCity)}

\* objects that carry all four keys: every plugin and city with every intent,
\* and every confidence with every intent
FullObjects ==
    {JObj(JStr(i), JNum(90), JStr(p), y) :
        i \in IntentNames, p \in PluginNames, y \in Cities}
        \cup {JObj(JStr(i), c, JStr("weather"), y) :
                 i \in IntentNames, c \in Confidences,
                 y \in {JNull, JStr("Tokyo")}}

\* objects with keys missing or an intent that is no string
SparseObjects ==
    {JObj(i, c, p, y) :
        i \in {Absent, JNull, JArr, JStr("plugin_usage")},
        c \in {Absent, JNum(90)},
        p \in {Absent, JStr("weather")},
        y \in {Absent, JStr("Tokyo")}}

PlainReplies ==
    {<<Json(o)>> : o \in FullObjects \cup SparseObjects}
        \cup {<<Json(JArr)>>, <<Txt("Sure! The intent is chat.")>>,
              <<Txt(ServiceErrorText)>>, <<>>}

\* replies also sent padded with whitespace and inside a code fence
WrappedBodies ==
    {<<Json(JObj(JStr(i), JNum(90), JStr("weather"), JStr("Tokyo")))>> :
        i \in IntentNames}
        \cup {<<Txt("Sure! The intent is chat.")>>}

Padded(b) == <<WS>> \o b \o <<WS, WS>>
Fenced(b) == <<WS, Fence, WS>> \o b \o <<WS, Fence>>
FencedTagged(b) == <<Fence, Txt("json"), WS>> \o b \o <<WS, Fence, WS>>

Replies ==
    PlainReplies
        \cup {Padded(b) : b \in WrappedBodies}
        \cup {Fenced(b) : b \in WrappedBodies}
        \cup {FencedTagged(b) : b \in WrappedBodies}

\* first messages of the Completion Service in a general chat
ChatReplies == {<<Txt("Hello! How can I help?")>>, <<>>}

\* request.message
Messages ==
    {<<>>, <<WS>>, <<WS, WS>>, <<Txt("hi")>>,
     <<WS, Txt("hotels in Paris"), WS>>}

\* what search_client.search can return
Hotel1 == [f \in {"HotelId", "HotelName", "@search.score"} |-> "1"]
Hotel2 == [f \in {"HotelId", "Description", "Geo"} |-> "2"]
SearchResults == {<<>>, <<Hotel1>>, <<Hotel1, Hotel2>>}
SearchFailures ==
    {[type |-> "HttpResponseError", text |-> "503 index unavailable"]}

\* what the call through the http plugin can produce
HttpBodies == {<<Txt("{\"current\": {\"temp_c\": 21}}")>>, <<>>}
HttpFailures == {[type |-> "TypeError", text |-> "cannot await the result"]}

----------------------------------------------------------------------------
(* server.py: constants and helpers of the handlers *)

EmptyMessageDetail == "Message cannot be empty."
InternalErrorDetail == "Internal Server Error"
UnrecognizedPluginText ==
    "Plugin functionality not recognized or insufficient data provided."
NotSureText == "I'm not sure how to help with that."
WeatherUrlPrefix ==
    "http://api.weatherapi.com/v1/current.json?key=YOUR_API_KEY&q="
ClassifierPrompt == "You are a highly capable intent detection assistant. ..."

\* top_k of both retrieve_by_text calls
TopK == 5

\* the names initialize_kernel_and_agents registers with kernel.add_plugin
RegisteredPlugins == {"intent_detection", "http"}

\* fields retrieve_by_text selects when none are given
DefaultFields ==
    {"HotelId", "HotelName", "Description", "Category", "Tags", "Address",
     "Rooms"}

Endpoints == {"chat", "detect_intent", "retrieval"}

Pending == [kind |-> "pending"]
HttpError(status, detail) ==
    [kind |-> "error", status |-> status, detail |-> detail]
Ok(body) == [kind |-> "body", status |-> 200, body |-> body]
\* a handler that answers an empty stream with an empty envelope
ReturnedNone_EmptyEnvelope ==
    [kind |-> "body", status |-> 200, body |-> [response |-> <<>>]]

\* the handler ran off its end and returned None
ReturnedNone == [kind |-> "none"]

ResponseBody(x) == [response |-> x]
IntentBody(i) == [intent |-> i]
ResultsBody(docs) == [results |-> docs]
\* the mapping /chat returns when the classifier handed back no value
IntentFallbackBody ==
    [intent |-> "unknown", confidence |-> 0, plugin |-> "unknown",
     city |-> JNull]

\* if not user_input
IsEmptyInput(input) == input = <<>>

Message(role, content) == [role |-> role, content |-> content]

\* the classifier's conversation without its system prompt
ClassifierHistory_NoPrompt(input) == <<Message("user", input)>>

\* the two-message history detect_intent builds
ClassifierHistory(input) ==
    <<Message("system", <<Txt(ClassifierPrompt)>>),
      Message("user", <<WS, Txt("\"")>> \o input \o <<Txt("\""), WS>>)>>

\* the general_chat branch sending the classifier's conversation
ChatHistoryFor_WithPrompt(input) ==
    <<Message("system", <<Txt(ClassifierPrompt)>>), Message("user", input)>>

\* the history of the general_chat branch
ChatHistoryFor(input) == <<Message("user", input)>>

CompletionCall(history) == [to |-> "completion", history |-> history]
RetrievalCall(q, k) == [to |-> "retrieval", query_text |-> q, top_k |-> k]
HttpGetCall(url) == [to |-> "http", url |-> url]

\* truth value of a JSON value in an `if`
Truthy(v) ==
    CASE v.ty = "null" -> FALSE
      [] v.ty = "str" -> v.s # ""
      [] v.ty = "num" -> v.n # 0
      [] OTHER -> TRUE

\* the URL with the {city} placeholder left out
WeatherUrl_NoCity(city) == <<Txt(WeatherUrlPrefix)>>

\* f"http://api.weatherapi.com/v1/current.json?key=YOUR_API_KEY&q={city}"
WeatherUrl(city) == <<Txt(WeatherUrlPrefix), Txt(city.s)>>

\* the branch of unified_chat_endpoint a classifier result leads to; val is
\* intent_detection_response.value, which is what detect_intent returned
Route(val) ==
    IF val = PyNone
    THEN "fallback"
    ELSE LET loaded == json_loads(val.text)
         IN  IF ~loaded.ok
             THEN "fallback"
             ELSE IF loaded.val.ty # "object"
             THEN "error"
             ELSE LET intent == Get(loaded.val, "intent", JStr("unknown"))
                      plugin == Get(loaded.val, "plugin", JStr("unknown"))
                      city == Get(loaded.val, "city", JNull)
                  IN  IF intent = JStr("general_chat")
                      THEN "general_chat"
                      ELSE IF intent = JStr("document_retrieval")
                      THEN "document_retrieval"
                      ELSE IF intent = JStr("plugin_usage")
                      THEN IF plugin = JStr("weather") /\ Truthy(city)
                           THEN "weather"
                           ELSE IF plugin = JStr("math")
                           THEN "math"
                           ELSE IF plugin = JStr("time")
                           THEN "time"
                           ELSE "unrecognized"
                      ELSE "not_sure"

\* city of the record the handler parsed
RoutedCity(val) == Get(json_loads(val.text).val, "city", JNull)

\* SK_KERNEL.plugins[name]
PluginLookup(name) == IF name \in RegisteredPlugins THEN "found" ELSE "KeyError"

\* a handler that puts str(e) in the detail
HandlerError_Leaky(text) == HttpError(500, text)

\* except Exception of the three handlers, for an exception with this text
HandlerError(text) == HttpError(500, InternalErrorDetail)

\* the unrecognized-plugin branch answering with the else branch's text
DirectResponse_NotSure(branch) ==
    CASE branch = "fallback" -> Ok(IntentFallbackBody)
      [] branch \in {"unrecognized", "not_sure"} ->
            Ok(ResponseBody(<<Txt(NotSureText)>>))
      [] branch \in {"math", "time"} -> HandlerError(branch)
      [] OTHER -> HandlerError("'NoneType' object has no attribute 'get'")

\* the answer of a branch of /chat that calls no collaborator.  The math and
\* time branches index SK_KERNEL.plugins with a name that was never
\* registered (and MathPlugin, TimePlugin define no calculate and no
\* get_current_time), so both raise inside the try.
DirectResponse(branch) ==
    CASE branch = "fallback" -> Ok(IntentFallbackBody)
      [] branch = "unrecognized" ->
            Ok(ResponseBody(<<Txt(UnrecognizedPluginText)>>))
      [] branch = "not_sure" -> Ok(ResponseBody(<<Txt(NotSureText)>>))
      [] branch \in {"math", "time"} -> HandlerError(branch)
      [] OTHER -> HandlerError("'NoneType' object has no attribute 'get'")

\* documents of retrieve_by_text: every result cut down to the fields
Project(results, fields) ==
    [n \in 1..Len(results) |->
        [f \in (DOMAIN results[n]) \cap fields |-> results[n][f]]]

\* return of detect_intent_endpoint
DetectIntentResponse(val) ==
    IF val = PyNone
    THEN HandlerError("the JSON object must be str, bytes or bytearray")
    ELSE LET loaded == json_loads(val.text)
         IN  IF ~loaded.ok \/ loaded.val.ty # "object"
             THEN HandlerError("Expecting value")
             ELSE Ok(IntentBody(Get(loaded.val, "intent", JStr("unknown"))))

\* request.message taken as it came, the .strip() forgotten
TrimMessage_NoStrip(msg) == msg

\* request.message.strip()
TrimMessage(msg) == strip(msg)

\* CustomRetrievalAgent.retrieve_by_text, given what search_client.search does
RetrieveByText(query_text, search) ==
    IF strip(query_text) = <<>>
    THEN [ok |-> FALSE, text |-> "Query text cannot be empty."]
    ELSE IF search.ok
    THEN [ok |-> TRUE, documents |-> Project(search.results, DefaultFields)]
    ELSE [ok |-> FALSE, text |-> "Failed to retrieve documents by text query."]

\* the answer of /retrieval given on /chat too
RetrievalResponse_WrongKey(ep, out) ==
    IF out.ok THEN Ok(ResultsBody(out.documents)) ELSE HandlerError(out.text)

\* what a handler answers once retrieve_by_text is over
RetrievalResponse(ep, out) ==
    IF out.ok
    THEN Ok(IF ep = "chat" THEN ResponseBody(out.documents)
            ELSE ResultsBody(out.documents))
    ELSE HandlerError(out.text)

----------------------------------------------------------------------------
(* server.py: startup and the shared handles *)

\* requests in flight at once
NumTasks == 2
Tasks == 1..NumTasks

\* SK_KERNEL = None, CHAT_AGENT = None, RETRIEVAL_AGENT = None
NoHandles ==
    [SK_KERNEL |-> PyNone, CHAT_AGENT |-> PyNone, RETRIEVAL_AGENT |-> PyNone]

\* the statements of initialize_kernel_and_agents that can raise, in order
InitSteps ==
    <<[does |-> "add_service", name |-> "chat_service"],
      [does |-> "add_service", name |-> "embedding_service"],
      [does |-> "add_service", name |-> "memory_service"],
      [does |-> "chat_agent", name |-> "CustomChatCompletionAgent"],
      [does |-> "add_plugin", name |-> "intent_detection"],
      [does |-> "retrieval_agent", name |-> "CustomRetrievalAgent"],
      [does |-> "add_plugin", name |-> "http"]>>

\* kernel = Kernel(), nothing else bound yet
NewKernel ==
    [at |-> 0, services |-> {}, plugins |-> {}, chat_agent |-> PyNone,
     retrieval_agent |-> PyNone]

PyObject(class) == [kind |-> "object", class |-> class]

\* the locals once the next statement has run
ApplyStep(k, step) ==
    LET on == [k EXCEPT !.at = @ + 1]
    IN  CASE step.does = "add_service" ->
                [on EXCEPT !.services = @ \cup {step.name}]
          [] step.does = "add_plugin" ->
                [on EXCEPT !.plugins = @ \cup {step.name}]
          [] step.does = "chat_agent" ->
                [on EXCEPT !.chat_agent = PyObject(step.name)]
          [] step.does = "retrieval_agent" ->
                [on EXCEPT !.retrieval_agent = PyObject(step.name)]

\* return kernel, chat_agent, retrieval_agent, bound by the lifespan handler
ReturnedHandles(k) ==
    [SK_KERNEL |-> [kind |-> "object", class |-> "Kernel",
                    services |-> k.services, plugins |-> k.plugins],
     CHAT_AGENT |-> k.chat_agent,
     RETRIEVAL_AGENT |-> k.retrieval_agent]

RECURSIVE RunSteps(_, _)
RunSteps(k, steps) ==
    IF steps = <<>> THEN k ELSE RunSteps(ApplyStep(k, Head(steps)), Tail(steps))

\* the handles of a process whose startup went through
ReadyHandles == ReturnedHandles(RunSteps(NewKernel, InitSteps))

\* a lifespan handler that logs the failure and yields all the same
LifespanAfter_Swallowed(result) == "serving"

\* the lifespan handler after initialize_kernel_and_agents: yield, or the
\* exception raised again
LifespanAfter(result) == IF result = "returned" THEN "serving" ELSE "failed"

\* a handler that sets the names it declares global back to None
HandlerGlobals_Cleared(h) == NoHandles

\* the globals after a step of a handler: `global` is declared, no name is
\* assigned
HandlerGlobals(h) == h

----------------------------------------------------------------------------
(* The agent called on its own and the loop of main.py: where they start *)

\* no exception
NoException == [type |-> "none", text |-> ""]

\* the agent before it is called
IdleAgent ==
    [pc |-> "idle", entry |-> "none", history |-> "none", service_calls |-> 0,
     yielded |-> <<>>, seen |-> <<>>, raised |-> NoException]

\* main() at its first prompt: history = ChatHistory()
NewShell ==
    [pc |-> "prompt", inputs |-> <<>>, yields |-> <<>>, history |-> <<>>,
     service_calls |-> 0]

----------------------------------------------------------------------------
(* State machine: one request at a time *)

NoFailure == [during |-> "none", text |-> ""]
Raised(stage, exc) == [during |-> stage, text |-> exc.text]

Nothing == [kind |-> "nothing"]
Returned(v) == [kind |-> "value", v |-> v]

\* the locals of a handler that has not been called
IdleTask ==
    [pc |-> "idle", endpoint |-> "none", message |-> <<>>,
     user_input |-> <<>>, stream |-> <<>>, value |-> PyNone, sent |-> <<>>,
     outcome |-> Nothing, response |-> Pending]

Init ==
    /\ endpoint = "none"
    /\ message = <<>>
    /\ user_input = <<>>
    /\ pc = "idle"
    /\ svc = "closed"
    /\ outcomes = <<>>
    /\ reply = <<>>
    /\ value = PyNone
    /\ calls = <<>>
    /\ failure = NoFailure
    /\ got = Nothing
    /\ response = Pending
    /\ lifespan = "serving"
    /\ kernel = RunSteps(NewKernel, InitSteps)
    /\ handles = ReadyHandles
    /\ tasks = [t \in Tasks |-> IdleTask]
    /\ agent = IdleAgent
    /\ shell = NewShell

\* the first lines of a handler: trim, reject an empty message, else make
\* the first call
Receive(ep, msg) ==
    LET input == TrimMessage(msg)
    IN  /\ endpoint' = ep
        /\ message' = msg
        /\ user_input' = input
        /\ IF IsEmptyInput(input)
           THEN /\ response' = HttpError(400, EmptyMessageDetail)
                /\ pc' = "done"
                /\ UNCHANGED <<calls, svc>>
           ELSE IF ep = "retrieval"
           THEN /\ calls' = Append(calls, RetrievalCall(input, TopK))
                /\ pc' = "retrieving"
                /\ UNCHANGED <<response, svc>>
           ELSE /\ calls' =
                    Append(calls, CompletionCall(ClassifierHistory(input)))
                /\ pc' = "classifying"
                /\ svc' = "open"
                /\ UNCHANGED response
        /\ UNCHANGED <<got, outcomes, reply, value, failure>>
        /\ UNCHANGED <<server, aside>>

\* POST /chat
ChatRequest == pc = "idle" /\ \E msg \in Messages : Receive("chat", msg)

\* POST /detect_intent
DetectIntentRequest ==
    pc = "idle" /\ \E msg \in Messages : Receive("detect_intent", msg)

\* POST /retrieval
RetrievalRequest ==
    pc = "idle" /\ \E msg \in Messages : Receive("retrieval", msg)

\* a soft failure that starts the stream over, the attempts so far forgotten
Handle_Restart(content, after) ==
    LET step == HandleReply(content)
    IN  /\ reply' = content
        /\ IF step.kind = "continue"
           THEN /\ outcomes' = <<>>
                /\ svc' = "open"
                /\ UNCHANGED <<pc, value>>
           ELSE /\ outcomes' = Append(outcomes, step.kind)
                /\ svc' = "closed"
                /\ pc' = "classified"
                /\ value' = LoopResult(step)

\* detect_intent is handed one message of the stream
Handle(content, after) ==
    LET step == HandleReply(content)
    IN  /\ reply' = content
        /\ outcomes' =
               Append(outcomes,
                      IF step.kind = "continue" THEN step.why ELSE step.kind)
        /\ IF step.kind = "continue"
           THEN /\ svc' = after
                /\ UNCHANGED <<pc, value>>
           ELSE /\ svc' = "closed"
                /\ pc' = "classified"
                /\ value' = LoopResult(step)

\* the Completion Service yields a reply to the classifier's conversation
ClassifyReply ==
    /\ pc = "classifying"
    /\ svc = "open"
    /\ Len(outcomes) < MaxReplies
    /\ \E content \in Replies : Handle(content, "open")
    /\ UNCHANGED <<got, endpoint, message, user_input, calls, failure, response>>
    /\ UNCHANGED <<server, aside>>

\* the Completion Service raises; the agent yields its "Error:" message
ClassifyServiceFails ==
    /\ pc = "classifying"
    /\ svc = "open"
    /\ Len(outcomes) < MaxReplies
    /\ \E exc \in ServiceFailures :
          /\ Handle(InvokeErrorMessage(exc), "failed")
          /\ failure' = Raised("classify", exc)
    /\ UNCHANGED <<got, endpoint, message, user_input, calls, response>>
    /\ UNCHANGED <<server, aside>>

\* the stream is over and no iteration returned
ClassifyStreamEnds ==
    /\ pc = "classifying"
    /\ svc \in {"open", "failed"}
    /\ value' = ExhaustedResult
    /\ pc' = "classified"
    /\ svc' = "closed"
    /\ UNCHANGED <<got, endpoint, message, user_input, outcomes, reply, calls,
                   failure, response>>
    /\ UNCHANGED <<server, aside>>

\* /detect_intent answers
DetectIntentFinish ==
    /\ pc = "classified"
    /\ endpoint = "detect_intent"
    /\ response' = DetectIntentResponse(value)
    /\ pc' = "done"
    /\ UNCHANGED <<got, endpoint, message, user_input, svc, outcomes, reply, value,
                   calls, failure>>
    /\ UNCHANGED <<server, aside>>

\* /chat answers from a branch that calls no collaborator
ChatAnswerDirect ==
    /\ pc = "classified"
    /\ endpoint = "chat"
    /\ Route(value) \notin {"general_chat", "document_retrieval", "weather"}
    /\ response' = DirectResponse(Route(value))
    /\ pc' = "done"
    /\ UNCHANGED <<got, endpoint, message, user_input, svc, outcomes, reply, value,
                   calls, failure>>
    /\ UNCHANGED <<server, aside>>

\* /chat, general_chat: CHAT_AGENT.invoke_with_validation(history)
ChatDispatchCompletion ==
    /\ pc = "classified"
    /\ endpoint = "chat"
    /\ Route(value) = "general_chat"
    /\ calls' = Append(calls, CompletionCall(ChatHistoryFor(user_input)))
    /\ pc' = "chatting"
    /\ svc' = "open"
    /\ UNCHANGED <<got, endpoint, message, user_input, outcomes, reply, value,
                   failure, response>>
    /\ UNCHANGED <<server, aside>>

\* /chat, document_retrieval: RETRIEVAL_AGENT.retrieve_by_text
ChatDispatchRetrieval ==
    /\ pc = "classified"
    /\ endpoint = "chat"
    /\ Route(value) = "document_retrieval"
    /\ calls' = Append(calls, RetrievalCall(user_input, TopK))
    /\ pc' = "retrieving"
    /\ UNCHANGED <<got, endpoint, message, user_input, svc, outcomes, reply, value,
                   failure, response>>
    /\ UNCHANGED <<server, aside>>

\* /chat, plugin_usage, weather: SK_KERNEL.plugins["http"].get(url)
ChatDispatchHttp ==
    /\ pc = "classified"
    /\ endpoint = "chat"
    /\ Route(value) = "weather"
    /\ IF PluginLookup("http") = "found"
       THEN /\ calls' =
                Append(calls, HttpGetCall(WeatherUrl(RoutedCity(value))))
            /\ pc' = "fetching"
            /\ UNCHANGED response
       ELSE /\ response' = HandlerError("'http'")
            /\ pc' = "done"
            /\ UNCHANGED calls
    /\ UNCHANGED <<got, endpoint, message, user_input, svc, outcomes, reply, value,
                   failure>>
    /\ UNCHANGED <<server, aside>>

\* general_chat: the first message of the stream is returned
ChatReplyArrives ==
    /\ pc = "chatting"
    /\ \E content \in ChatReplies :
          /\ got' = Returned(content)
          /\ response' = Ok(ResponseBody(content))
    /\ pc' = "done"
    /\ svc' = "closed"
    /\ UNCHANGED <<endpoint, message, user_input, outcomes, reply, value,
                   calls, failure>>
    /\ UNCHANGED <<server, aside>>

\* general_chat: the service raises before a first message; the agent's
\* "Error:" message is the first message of the stream
ChatServiceFails ==
    /\ pc = "chatting"
    /\ \E exc \in ServiceFailures :
          /\ got' = Returned(InvokeErrorMessage(exc))
          /\ response' = Ok(ResponseBody(InvokeErrorMessage(exc)))
          /\ failure' = Raised("dispatch", exc)
    /\ pc' = "done"
    /\ svc' = "failed"
    /\ UNCHANGED <<endpoint, message, user_input, outcomes, reply, value,
                   calls>>
    /\ UNCHANGED <<server, aside>>

\* general_chat: the stream yields nothing, the handler falls off its end
ChatStreamEnds ==
    /\ pc = "chatting"
    /\ response' = ReturnedNone
    /\ pc' = "done"
    /\ svc' = "closed"
    /\ UNCHANGED <<got, endpoint, message, user_input, outcomes, reply, value,
                   calls, failure>>
    /\ UNCHANGED <<server, aside>>

\* the search returns and retrieve_by_text hands back its documents
RetrievalReturns ==
    /\ pc = "retrieving"
    /\ \E results \in SearchResults :
          LET out == RetrieveByText(user_input,
                                    [ok |-> TRUE, results |-> results])
          IN  /\ got' = IF out.ok THEN Returned(out.documents) ELSE Nothing
              /\ response' = RetrievalResponse(endpoint, out)
    /\ pc' = "done"
    /\ UNCHANGED <<endpoint, message, user_input, svc, outcomes, reply, value,
                   calls, failure>>
    /\ UNCHANGED <<server, aside>>

\* the search raises and retrieve_by_text raises RuntimeError
RetrievalFails ==
    /\ pc = "retrieving"
    /\ \E exc \in SearchFailures :
          /\ response' =
                 RetrievalResponse(endpoint,
                     RetrieveByText(user_input, [ok |-> FALSE]))
          /\ failure' = Raised("dispatch", exc)
    /\ pc' = "done"
    /\ UNCHANGED <<got, endpoint, message, user_input, svc, outcomes, reply,
                   value, calls>>
    /\ UNCHANGED <<server, aside>>

\* the GET through the http plugin hands back a body
HttpReturns ==
    /\ pc = "fetching"
    /\ \E body \in HttpBodies :
          /\ got' = Returned(body)
          /\ response' = Ok(ResponseBody(body))
    /\ pc' = "done"
    /\ UNCHANGED <<endpoint, message, user_input, svc, outcomes, reply, value,
                   calls, failure>>
    /\ UNCHANGED <<server, aside>>

\* the call through the http plugin raises
HttpRaises ==
    /\ pc = "fetching"
    /\ \E exc \in HttpFailures :
          /\ response' = HandlerError(exc.text)
          /\ failure' = Raised("dispatch", exc)
    /\ pc' = "done"
    /\ UNCHANGED <<got, endpoint, message, user_input, svc, outcomes, reply, value,
                   calls>>
    /\ UNCHANGED <<server, aside>>

Next ==
    \/ ChatRequest
    \/ DetectIntentRequest
    \/ RetrievalRequest
    \/ ClassifyReply
    \/ ClassifyServiceFails
    \/ ClassifyStreamEnds
    \/ DetectIntentFinish
    \/ ChatAnswerDirect
    \/ ChatDispatchCompletion
    \/ ChatDispatchRetrieval
    \/ ChatDispatchHttp
    \/ ChatReplyArrives
    \/ ChatServiceFails
    \/ ChatStreamEnds
    \/ RetrievalReturns
    \/ RetrievalFails
    \/ HttpReturns
    \/ HttpRaises

Spec == Init /\ [][Next]_vars

\* a step of the classifier's async for: the stream hands over a message,
\* fails, or ends
ClassifierStep == ClassifyReply \/ ClassifyServiceFails \/ ClassifyStreamEnds

\* the event loop resumes detect_intent whenever its stream has moved
LiveSpec == Init /\ [][Next]_vars /\ WF_vars(ClassifierStep)

----------------------------------------------------------------------------
(* State machine: the process, from startup on, with handlers in flight *)
(* together.  A handler runs from one await to the next in one step.    *)

\* detect_intent over a whole stream of replies
RECURSIVE DetectIntent(_)
DetectIntent(stream) ==
    IF stream = <<>>
    THEN ExhaustedResult
    ELSE LET step == HandleReply(Head(stream))
         IN  IF step.kind = "continue"
             THEN DetectIntent(Tail(stream))
             ELSE LoopResult(step)

\* request.message of the concurrent requests
ServerMessages == {<<WS>>, <<WS, Txt("hi"), WS>>}

\* streams of the classify call of the concurrent requests
ServerStreams ==
    {<<>>,
     <<<<Json(JObj(JStr("general_chat"), JNum(90), JStr("unknown"), JNull))>>>>,
     <<<<Txt("Sure! The intent is chat.")>>,
       <<Json(JObj(JStr("document_retrieval"), JNum(90), JStr("unknown"),
                   JNull))>>>>,
     <<<<Json(JObj(JStr("plugin_usage"), JNum(90), JStr("weather"),
                   JStr("Tokyo")))>>>>,
     <<<<Json(JObj(JStr("plugin_usage"), JNum(90), JStr("stocks"), JNull))>>>>}

\* what the general_chat stream does first
ChatOutcomes ==
    {[kind |-> "message", content |-> <<Txt("Hello! How can I help?")>>],
     [kind |-> "raise", exc |-> ServiceCrash],
     [kind |-> "end"]}

\* what search_client.search does
SearchOutcomes ==
    {[ok |-> TRUE, results |-> <<Hotel1, Hotel2>>], [ok |-> FALSE]}

\* what the call through the http plugin does
HttpOutcomes ==
    {[kind |-> "body", body |-> <<Txt("{\"current\": {\"temp_c\": 21}}")>>],
     [kind |-> "raise",
      exc |-> [type |-> "TypeError", text |-> "cannot await the result"]]}

DispatchBranches == {"general_chat", "document_retrieval", "weather"}

\* the global a branch of /chat reads for its dispatch call
DispatchHandle(h, branch) ==
    CASE branch = "general_chat" -> h.CHAT_AGENT
      [] branch = "document_retrieval" -> h.RETRIEVAL_AGENT
      [] branch = "weather" -> h.SK_KERNEL

\* the dispatch call of a branch of /chat
DispatchCall(branch, input, val) ==
    CASE branch = "general_chat" -> CompletionCall(ChatHistoryFor(input))
      [] branch = "document_retrieval" -> RetrievalCall(input, TopK)
      [] branch = "weather" -> HttpGetCall(WeatherUrl(RoutedCity(val)))

\* where the handler waits for its dispatch call
DispatchPc(branch) ==
    CASE branch = "general_chat" -> "chatting"
      [] branch = "document_retrieval" -> "retrieving"
      [] branch = "weather" -> "fetching"

\* the general_chat branch, given what the stream does first
ChatAnswer(out) ==
    CASE out.kind = "message" -> Ok(ResponseBody(out.content))
      [] out.kind = "raise" -> Ok(ResponseBody(InvokeErrorMessage(out.exc)))
      [] out.kind = "end" -> ReturnedNone

\* the weather branch, given what the call through the http plugin does
HttpAnswer(out) ==
    IF out.kind = "body"
    THEN Ok(ResponseBody(out.body))
    ELSE HandlerError(out.exc.text)

\* a handler using a global that is None
NoneHandleError == HandlerError("'NoneType' object has no attribute")

ServerInit ==
    /\ endpoint = "none"
    /\ message = <<>>
    /\ user_input = <<>>
    /\ pc = "idle"
    /\ svc = "closed"
    /\ outcomes = <<>>
    /\ reply = <<>>
    /\ value = PyNone
    /\ calls = <<>>
    /\ failure = NoFailure
    /\ got = Nothing
    /\ response = Pending
    /\ lifespan = "starting"
    /\ kernel = NewKernel
    /\ handles = NoHandles
    /\ tasks = [t \in Tasks |-> IdleTask]
    /\ agent = IdleAgent
    /\ shell = NewShell

\* the next statement of initialize_kernel_and_agents goes through
InitStepDone ==
    /\ lifespan = "starting"
    /\ kernel.at < Len(InitSteps)
    /\ kernel' = ApplyStep(kernel, InitSteps[kernel.at + 1])
    /\ UNCHANGED <<lifespan, handles, tasks, request, aside>>

\* the next statement raises: RuntimeError out of
\* initialize_kernel_and_agents, raised again by the lifespan handler
InitStepRaises ==
    /\ lifespan = "starting"
    /\ kernel.at < Len(InitSteps)
    /\ lifespan' = LifespanAfter("raised")
    /\ UNCHANGED <<kernel, handles, tasks, request, aside>>

\* initialize_kernel_and_agents returns; the lifespan handler binds the three
\* globals and yields
InitReturns ==
    /\ lifespan = "starting"
    /\ kernel.at = Len(InitSteps)
    /\ handles' = ReturnedHandles(kernel)
    /\ lifespan' = LifespanAfter("returned")
    /\ UNCHANGED <<kernel, tasks, request, aside>>

\* a handler is called and runs to its first await or to its return
TaskReceive(t) ==
    /\ lifespan = "serving"
    /\ tasks[t].pc = "idle"
    /\ \E ep \in Endpoints, msg \in ServerMessages :
          LET input == TrimMessage(msg)
              me == [tasks[t] EXCEPT !.endpoint = ep, !.message = msg,
                                     !.user_input = input]
              used == IF ep = "retrieval"
                      THEN handles.RETRIEVAL_AGENT
                      ELSE handles.SK_KERNEL
          IN  tasks' = [tasks EXCEPT ![t] =
                  IF IsEmptyInput(input)
                  THEN [me EXCEPT !.pc = "done",
                                  !.response = HttpError(400, EmptyMessageDetail)]
                  ELSE IF used = PyNone
                  THEN [me EXCEPT !.pc = "done", !.response = NoneHandleError]
                  ELSE IF ep = "retrieval"
                  THEN [me EXCEPT !.pc = "retrieving",
                                  !.sent = <<RetrievalCall(input, TopK)>>]
                  ELSE [me EXCEPT !.pc = "classifying",
                                  !.sent = <<CompletionCall(
                                                ClassifierHistory(input))>>]]
    /\ handles' = HandlerGlobals(handles)
    /\ UNCHANGED <<lifespan, kernel, request, aside>>

\* await SK_KERNEL.invoke(detect_intent) is over: the handler answers or
\* runs on to its dispatch call
TaskClassified(t) ==
    /\ tasks[t].pc = "classifying"
    /\ \E stream \in ServerStreams :
          LET val == DetectIntent(stream)
              me == [tasks[t] EXCEPT !.stream = stream, !.value = val]
              branch == Route(val)
          IN  tasks' = [tasks EXCEPT ![t] =
                  IF me.endpoint = "detect_intent"
                  THEN [me EXCEPT !.pc = "done",
                                  !.response = DetectIntentResponse(val)]
                  ELSE IF branch \notin DispatchBranches
                  THEN [me EXCEPT !.pc = "done",
                                  !.response = DirectResponse(branch)]
                  ELSE IF DispatchHandle(handles, branch) = PyNone
                  THEN [me EXCEPT !.pc = "done", !.response = NoneHandleError]
                  ELSE [me EXCEPT !.pc = DispatchPc(branch),
                                  !.sent = Append(@, DispatchCall(
                                               branch, me.user_input, val))]]
    /\ handles' = HandlerGlobals(handles)
    /\ UNCHANGED <<lifespan, kernel, request, aside>>

\* the general_chat stream gives its first message, or none
TaskChatReturns(t) ==
    /\ tasks[t].pc = "chatting"
    /\ \E out \in ChatOutcomes :
          tasks' = [tasks EXCEPT ![t] =
              [@ EXCEPT !.pc = "done", !.outcome = out,
                        !.response = ChatAnswer(out)]]
    /\ handles' = HandlerGlobals(handles)
    /\ UNCHANGED <<lifespan, kernel, request, aside>>

\* retrieve_by_text is over, on /chat or on /retrieval
TaskRetrievalReturns(t) ==
    /\ tasks[t].pc = "retrieving"
    /\ \E out \in SearchOutcomes :
          tasks' = [tasks EXCEPT ![t] =
              [@ EXCEPT !.pc = "done", !.outcome = out,
                        !.response =
                            RetrievalResponse(tasks[t].endpoint,
                                RetrieveByText(tasks[t].user_input, out))]]
    /\ handles' = HandlerGlobals(handles)
    /\ UNCHANGED <<lifespan, kernel, request, aside>>

\* the call through the http plugin is over
TaskHttpReturns(t) ==
    /\ tasks[t].pc = "fetching"
    /\ \E out \in HttpOutcomes :
          tasks' = [tasks EXCEPT ![t] =
              [@ EXCEPT !.pc = "done", !.outcome = out,
                        !.response = HttpAnswer(out)]]
    /\ handles' = HandlerGlobals(handles)
    /\ UNCHANGED <<lifespan, kernel, request, aside>>

ServerNext ==
    \/ InitStepDone
    \/ InitStepRaises
    \/ InitReturns
    \/ \E t \in Tasks : TaskReceive(t)
    \/ \E t \in Tasks : TaskClassified(t)
    \/ \E t \in Tasks : TaskChatReturns(t)
    \/ \E t \in Tasks : TaskRetrievalReturns(t)
    \/ \E t \in Tasks : TaskHttpReturns(t)

ServerSpec == ServerInit /\ [][ServerNext]_vars

----------------------------------------------------------------------------
(* State machine: one call of the agent, seen from its consumer *)

\* most messages the Completion Service yields in one stream
MaxYield == 2

ErrChatUnavailable == "Error: Chat service is currently unavailable."

\* the two generators of the agent a consumer can iterate
AgentEntries == {"invoke", "invoke_with_validation"}

\* what is passed as history: a list of ChatMessageContent, a list with
\* another object in it, a ChatHistory, a str
HistoryKinds == {"list", "bad_items", "chat_history", "text"}

\* _validate_history: the exception it raises, if any
ValidateHistory(kind) ==
    CASE kind = "list" -> NoException
      [] kind = "bad_items" ->
            [type |-> "ValueError",
             text |-> "All history items must be instances of ChatMessageContent."]
      [] OTHER ->
            [type |-> "ValueError", text |-> "Chat history must be a list."]

\* the lines of invoke before the service is called: the exception they
\* raise, if any
InvokeSetup(kind) ==
    CASE kind \in {"list", "chat_history"} -> NoException
      [] kind = "bad_items" ->
            [type |-> "ValidationError",
             text |-> "1 validation error for ChatHistory"]
      [] OTHER ->
            [type |-> "AttributeError",
             text |-> "'str' object has no attribute 'messages'"]

\* the message of the except clauses of invoke_with_validation
WithValidationErrorMessage(exc) ==
    CASE exc.type = "ValueError" -> <<Txt(ErrInvalidHistory)>>
      [] exc.type = "KernelServiceNotFoundError" -> <<Txt(ErrChatUnavailable)>>
      [] OTHER -> <<Txt(ErrUnexpected)>>

\* exceptions of the service inside super().invoke
AgentServiceFailures ==
    ServiceFailures \cup
        {[type |-> "ValueError", text |-> "content filter triggered"]}

\* the generator is called and runs up to the service call, or to its end
AgentCalled ==
    /\ agent.pc = "idle"
    /\ \E entry \in AgentEntries, kind \in HistoryKinds :
          LET me == [agent EXCEPT !.entry = entry, !.history = kind]
              invalid == IF entry = "invoke_with_validation"
                         THEN ValidateHistory(kind)
                         ELSE NoException
              refused == InvokeSetup(kind)
          IN  agent' =
                  IF invalid # NoException
                  THEN [me EXCEPT !.pc = "over",
                           !.seen = <<WithValidationErrorMessage(invalid)>>]
                  ELSE IF refused # NoException
                  THEN [me EXCEPT !.pc = "over",
                           !.seen = <<InvokeErrorMessage(refused)>>]
                  ELSE [me EXCEPT !.pc = "streaming", !.service_calls = @ + 1]
    /\ UNCHANGED <<request, server, shell>>

\* the service yields a message; both generators hand it on
AgentServiceYields ==
    /\ agent.pc = "streaming"
    /\ Len(agent.yielded) < MaxYield
    /\ \E content \in ChatReplies :
          agent' = [agent EXCEPT !.yielded = Append(@, content),
                                 !.seen = Append(@, content)]
    /\ UNCHANGED <<request, server, shell>>

\* the service raises; invoke yields its message and ends
AgentServiceRaises ==
    /\ agent.pc = "streaming"
    /\ \E exc \in AgentServiceFailures :
          agent' = [agent EXCEPT !.raised = exc,
                                 !.seen = Append(@, InvokeErrorMessage(exc)),
                                 !.pc = "over"]
    /\ UNCHANGED <<request, server, shell>>

\* the stream of the service ends
AgentServiceEnds ==
    /\ agent.pc = "streaming"
    /\ agent' = [agent EXCEPT !.pc = "over"]
    /\ UNCHANGED <<request, server, shell>>

AgentNext ==
    \/ AgentCalled
    \/ AgentServiceYields
    \/ AgentServiceRaises
    \/ AgentServiceEnds

AgentSpec == ServerInit /\ [][AgentNext]_vars

----------------------------------------------------------------------------
(* State machine: the chat loop of main.py *)

\* most lines read from the prompt
MaxInputs == 2

\* what input("You: ") can hand back
Lines ==
    {<<>>, <<WS>>, <<Txt("exit")>>, <<WS, Txt("EXIT"), WS>>, <<Txt("hi")>>,
     <<Txt("exit now")>>}

\* str.lower() of the texts of the model
LowerText(t) == IF t = "EXIT" THEN "exit" ELSE t
lower(s) ==
    [n \in 1..Len(s) |->
        IF s[n].t = "text" THEN Txt(LowerText(s[n].s)) ELSE s[n]]

\* a loop whose except clause gives up
AfterBody_RaiseEnds(result) ==
    IF result \in {"exit", "raised"} THEN "ended" ELSE "prompt"

\* where the while True loop goes after its body: break on exit, the next
\* prompt otherwise, the except clause of the body included
AfterBody(result) == IF result = "exit" THEN "ended" ELSE "prompt"

\* exceptions of the loop body outside the agent
BodyFailures == {[type |-> "BrokenPipeError", text |-> "Broken pipe"]}

\* the stream of the input read last, with one more message
Yielded(msg) ==
    [shell EXCEPT !.history = Append(@, msg),
                  !.yields[Len(shell.inputs)] = Append(@, msg)]

\* a line is read; exit breaks, an empty line does nothing, any other line
\* is added to the history and chat_agent.invoke(history) is called
ShellReads ==
    /\ shell.pc = "prompt"
    /\ Len(shell.inputs) < MaxInputs
    /\ \E line \in Lines :
          LET input == strip(line)
              me == [shell EXCEPT !.inputs = Append(@, line),
                                  !.yields = Append(@, <<>>)]
          IN  shell' =
                  IF lower(input) = <<Txt("exit")>>
                  THEN [me EXCEPT !.pc = AfterBody("exit")]
                  ELSE IF input # <<>>
                  THEN [me EXCEPT !.history = Append(@, Message("user", input)),
                                  !.service_calls = @ + 1,
                                  !.pc = "invoking"]
                  ELSE [me EXCEPT !.pc = AfterBody("done")]
    /\ UNCHANGED <<request, server, agent>>

\* the agent yields a message of the service: printed, added to the history
ShellYields ==
    /\ shell.pc = "invoking"
    /\ Len(shell.yields[Len(shell.inputs)]) < MaxYield
    /\ \E content \in ChatReplies :
          shell' = Yielded(Message("assistant", content))
    /\ UNCHANGED <<request, server, agent>>

\* the service raises: the agent yields its "Error:" message and ends
ShellServiceFails ==
    /\ shell.pc = "invoking"
    /\ \E exc \in ServiceFailures :
          shell' = [Yielded(Message("system", InvokeErrorMessage(exc)))
                       EXCEPT !.pc = AfterBody("done")]
    /\ UNCHANGED <<request, server, agent>>

\* the stream ends
ShellStreamEnds ==
    /\ shell.pc = "invoking"
    /\ shell' = [shell EXCEPT !.pc = AfterBody("done")]
    /\ UNCHANGED <<request, server, agent>>

\* the body raises outside the agent: the except clause prints and the loop
\* goes on
ShellBodyRaises ==
    /\ shell.pc = "invoking"
    /\ \E exc \in BodyFailures :
          shell' = [shell EXCEPT !.pc = AfterBody("raised")]
    /\ UNCHANGED <<request, server, agent>>

ShellNext ==
    \/ ShellReads
    \/ ShellYields
    \/ ShellServiceFails
    \/ ShellStreamEnds
    \/ ShellBodyRaises

ShellSpec == ServerInit /\ [][ShellNext]_vars

----------------------------------------------------------------------------
(* Properties of the classifier *)

RoutableIntents ==
    {JStr("general_chat"), JStr("document_retrieval"), JStr("plugin_usage")}

\* the record {general_chat, 0.5, unknown, null} as detect_intent returns it
FixedDefault ==
    PyStr(<<Json(JObj(JStr("general_chat"), JNum(50), JStr("unknown"), JNull))>>)

\* C1: whatever the reply stream of the Completion Service, detect_intent
\* returns a record, and the intent of the record is general_chat,
\* document_retrieval or plugin_usage.  The code returns None when the stream
\* ends with no reply accepted.
C1_ClassifyReturnsRoutableRecord ==
    pc = "classified" =>
        /\ value # PyNone
        /\ value.text[1].val.intent \in RoutableIntents

\* C2: when every reply handed to detect_intent was malformed JSON,
\* detect_intent returns the fixed default record.  The code returns None.
C2_MalformedOnEveryAttemptGivesDefault ==
    (/\ pc = "classified"
     /\ outcomes # <<>>
     /\ \A n \in DOMAIN outcomes : outcomes[n] = "decode")
        => value = FixedDefault

\* C3: when the Completion Service fails during the classify call (the agent
\* reports it as one "Error:" message), detect_intent returns the fixed
\* default record.  The code skips the message and returns None.
C3_ServiceFailureGivesDefault ==
    (pc = "classified" /\ failure.during = "classify") => value = FixedDefault

\* replies that are one schema-conforming JSON object with no "Error:" in it
UsableObjects ==
    {o \in FullObjects \cup SparseObjects :
        /\ o.intent \in RoutableIntents \cup {JStr("unknown")}
        /\ o.confidence.ty = "num"
        /\ ~JsonHasMarker(o)}

\* the texts a reply carrying the object o can have
RepliesCarrying(o) ==
    {<<Json(o)>>, Padded(<<Json(o)>>), Fenced(<<Json(o)>>)}

IfAbsent(v, default) == IF v = Absent THEN default ELSE v

\* what C4 says detect_intent returns for the usable object o
C4_Expected(o) ==
    IF o.intent = JStr("unknown")
    THEN JObj(JStr("general_chat"), JNum(50),
              IfAbsent(o.plugin, JStr("unknown")), IfAbsent(o.city, JNull))
    ELSE JObj(o.intent, o.confidence,
              IfAbsent(o.plugin, JStr("unknown")), IfAbsent(o.city, JNull))

\* C4: the first reply that is not skipped, when it is a valid object with
\* intent unknown and a numeric confidence, gives intent general_chat and
\* confidence 0.5 with plugin and city as the reply had them; with one of the
\* other three intents all four values are returned as the reply had them.
C4_UnknownRedirectedOthersUnchanged ==
    \A o \in UsableObjects :
        reply \in RepliesCarrying(o) =>
            /\ pc # "classifying"
            /\ value = PyStr(<<Json(C4_Expected(o))>>)

C4_Witness ==
    /\ pc = "classified"
    /\ Len(outcomes) = 2
    /\ reply = <<Json(JObj(JStr("unknown"), JNum(90), JStr("weather"),
                           JStr("Tokyo")))>>
    /\ value = PyStr(<<Json(JObj(JStr("general_chat"), JNum(50),
                                 JStr("weather"), JStr("Tokyo")))>>)

----------------------------------------------------------------------------
(* Properties of the handlers *)

IsBlank(m) == \A n \in DOMAIN m : m[n] = WS

\* C5: on /chat, /detect_intent and /retrieval a message that is empty after
\* trimming is answered 400 "Message cannot be empty." and no collaborator
\* is called.
C5_EmptyMessageRejected ==
    (endpoint \in Endpoints /\ IsBlank(message)) =>
        /\ pc = "done"
        /\ response = [kind |-> "error", status |-> 400,
                       detail |-> "Message cannot be empty."]
        /\ calls = <<>>

C5_Witness ==
    /\ endpoint = "detect_intent"
    /\ message = <<WS, WS>>
    /\ response = [kind |-> "error", status |-> 400,
                   detail |-> "Message cannot be empty."]

GenericError ==
    [kind |-> "error", status |-> 500, detail |-> "Internal Server Error"]
Success(body) == [kind |-> "body", status |-> 200, body |-> body]

LastCall == calls[Len(calls)]

\* the text appears in what the caller is sent
Leaks(text) ==
    \/ response.kind = "error" /\ response.detail = text
    \/ /\ response.kind = "body"
       /\ "response" \in DOMAIN response.body
       /\ \E n \in DOMAIN response.body.response :
              response.body.response[n] = Txt(text)

\* C6 as stated: every failure of the collaborator /chat dispatched to is
\* answered 500 "Internal Server Error", never 200.  A failure of the
\* Completion Service in the general_chat branch is answered 200.
C6_DispatchFailureAlways500 ==
    (endpoint = "chat" /\ pc = "done" /\ failure.during = "dispatch")
        => response = GenericError

\* C6, amended: an exception of the Retrieval Service or of the http plugin
\* call is answered 500 "Internal Server Error"; a failure of the Completion
\* Service before its first message in the general_chat branch is answered
\* 200 with one of the agent's two fixed "Error:" messages under `response`;
\* the text of the failure is in neither.
C6_DispatchFailureAnswer ==
    (endpoint = "chat" /\ pc = "done" /\ failure.during = "dispatch") =>
        /\ LastCall.to \in {"retrieval", "http"} => response = GenericError
        /\ LastCall.to = "completion" =>
               response \in
                   {Success([response |-> <<Txt(m)>>]) :
                       m \in {ErrServiceUnavailable, ErrUnexpected}}
        /\ ~Leaks(failure.text)

C6_Witness ==
    /\ endpoint = "chat"
    /\ pc = "done"
    /\ failure = [during |-> "dispatch", text |-> "503 index unavailable"]
    /\ LastCall.to = "retrieval"
    /\ response = GenericError

SoftFailures == {"marker", "decode", "schema"}

\* C7: when every reply handed to the classifier was a soft failure, /chat
\* handles the message as general_chat (forwards it to the Completion
\* Service and returns its reply under `response`) and /detect_intent
\* returns {intent: general_chat}.  The code answers /chat with an intent
\* record and /detect_intent with 500.
C7_SoftFailuresNeverVisible ==
    (/\ pc = "done"
     /\ outcomes # <<>>
     /\ \A n \in DOMAIN outcomes : outcomes[n] \in SoftFailures) =>
        /\ endpoint = "chat" =>
               /\ Len(calls) = 2
               /\ calls[2] = [to |-> "completion",
                              history |-> <<[role |-> "user",
                                             content |-> user_input]>>]
               /\ got.kind = "value" => response = Success([response |-> got.v])
        /\ endpoint = "detect_intent" =>
               response = Success([intent |-> JStr("general_chat")])

\* C8: every answer of /chat to a non-empty message is a success body with
\* the single key `response` or an HTTP error; no success body is an intent
\* record.  (A handler that returns no value is answered by the framework,
\* not with a body of the handler: it is not counted against the claim.)
\* The code returns an intent record when the classifier handed back None.
C8_ChatAnswerIsEnvelope ==
    (endpoint = "chat" /\ pc = "done" /\ ~IsBlank(message)) =>
        \/ response.kind = "body" /\ DOMAIN response.body = {"response"}
        \/ response.kind \in {"error", "none"}

\* q is m without its leading and trailing whitespace
IsTrimOf(q, m) ==
    /\ q # <<>>
    /\ q[1] # WS
    /\ q[Len(q)] # WS
    /\ \E lead \in 0..Len(m) :
          /\ lead + Len(q) <= Len(m)
          /\ SubSeq(m, lead + 1, lead + Len(q)) = q
          /\ \A n \in 1..Len(m) :
                 (n <= lead \/ n > lead + Len(q)) => m[n] = WS

\* the record detect_intent returned
ClassifiedRecord == value.text[1].val

\* C9: with intent document_retrieval, /chat makes one call to the Retrieval
\* Service, with the trimmed input as query_text and top_k 5, no other
\* dispatch call, and returns the list it got under `response`.
C9_RetrievalDispatch ==
    (/\ endpoint = "chat"
     /\ pc \in {"retrieving", "done"}
     /\ value # PyNone
     /\ ClassifiedRecord.intent = JStr("document_retrieval")) =>
        /\ Len(calls) = 2
        /\ calls[1].to = "completion"
        /\ calls[2].to = "retrieval"
        /\ IsTrimOf(calls[2].query_text, message)
        /\ calls[2].top_k = 5
        /\ (pc = "done" /\ got.kind = "value") =>
               response = Success([response |-> got.v])

C9_Witness ==
    /\ endpoint = "chat"
    /\ pc = "done"
    /\ message = <<WS, Txt("hotels in Paris"), WS>>
    /\ Len(calls) = 2
    /\ calls[2] = [to |-> "retrieval",
                   query_text |-> <<Txt("hotels in Paris")>>, top_k |-> 5]
    /\ response =
           Success([response |-> <<[HotelId |-> "1", HotelName |-> "1"]>>])

\* what C10 says of a weather record with city c
C10_WeatherAnswer(c) ==
    /\ Len(calls) = 2
    /\ calls[2] =
           [to |-> "http",
            url |-> <<Txt("http://api.weatherapi.com/v1/current.json?key=YOUR_API_KEY&q="),
                      Txt(c)>>]
    /\ got.kind = "value" => response = Success([response |-> got.v])

IsWeatherRecord ==
    /\ value # PyNone
    /\ ClassifiedRecord.intent = JStr("plugin_usage")
    /\ ClassifiedRecord.plugin = JStr("weather")
    /\ ClassifiedRecord.city # JNull

IsPluginUsage ==
    /\ endpoint = "chat"
    /\ value # PyNone
    /\ ClassifiedRecord.intent = JStr("plugin_usage")

\* C11: with intent plugin_usage and either plugin weather with a null city
\* or a plugin that is none of weather, math, time, /chat answers 200 with
\* `response` = "Plugin functionality not recognized or insufficient data
\* provided." and calls no plugin, makes no GET and no other dispatch call:
\* the classification call stays the only call of the request.
C11_UnrecognizedPluginAnswer ==
    (/\ IsPluginUsage
     /\ \/ /\ ClassifiedRecord.plugin = JStr("weather")
           /\ ClassifiedRecord.city = JNull
        \/ ClassifiedRecord.plugin \notin
               {JStr("weather"), JStr("math"), JStr("time")}) =>
        /\ pc \in {"classified", "done"}
        /\ Len(calls) = 1
        /\ calls[1].to = "completion"
        /\ got = Nothing
        /\ pc = "done" =>
               response =
                   Success([response |->
                       <<Txt("Plugin functionality not recognized or insufficient data provided.")>>])

C11_Witness ==
    /\ IsPluginUsage
    /\ pc = "done"
    /\ ClassifiedRecord.plugin = JStr("weather")
    /\ ClassifiedRecord.city = JNull
    /\ Len(calls) = 1
    /\ response.kind = "body"

\* C12: with intent plugin_usage and plugin math (time), /chat calls the
\* math plugin's calculate with the user input (the time plugin's clock
\* function) and answers 200 with the result under `response`.  Neither
\* plugin is in the registry, so the lookup raises and the answer is 500.
C12_MathTimeAnswered ==
    (/\ IsPluginUsage
     /\ pc = "done"
     /\ ClassifiedRecord.plugin \in {JStr("math"), JStr("time")}) =>
        /\ response.kind = "body"
        /\ response.status = 200
        /\ DOMAIN response.body = {"response"}

\* C13: with intent general_chat, /chat sends the Completion Service a
\* conversation of one user message whose content is the trimmed input (no
\* system prompt, no earlier turn) and returns the content of the first
\* message of the stream under `response`.
C13_GeneralChatDispatch ==
    (/\ endpoint = "chat"
     /\ pc \in {"chatting", "done"}
     /\ value # PyNone
     /\ ClassifiedRecord.intent = JStr("general_chat")) =>
        /\ Len(calls) = 2
        /\ calls[2].to = "completion"
        /\ Len(calls[2].history) = 1
        /\ calls[2].history[1].role = "user"
        /\ IsTrimOf(calls[2].history[1].content, message)
        /\ (pc = "done" /\ got.kind = "value") =>
               response = Success([response |-> got.v])

C13_Witness ==
    /\ endpoint = "chat"
    /\ pc = "done"
    /\ message = <<WS, Txt("hotels in Paris"), WS>>
    /\ value # PyNone
    /\ ClassifiedRecord.intent = JStr("general_chat")
    /\ Len(calls) = 2
    /\ calls[2] = [to |-> "completion",
                   history |-> <<[role |-> "user",
                                  content |-> <<Txt("hotels in Paris")>>]>>]
    /\ got.kind = "value"
    /\ failure = NoFailure
    /\ response = Success([response |-> got.v])

\* a call that hands the Completion Service the classifier's conversation
IsClassificationCall(c) ==
    /\ c.to = "completion"
    /\ Len(c.history) = 2
    /\ c.history[1] = [role |-> "system", content |-> <<Txt(ClassifierPrompt)>>]
    /\ c.history[2].role = "user"

C15_CallsInOrder ==
    endpoint = "chat" =>
        /\ Len(calls) <= 2
        /\ ~IsBlank(message) =>
               /\ Len(calls) >= 1
               /\ IsClassificationCall(calls[1])
        /\ pc = "classifying" => Len(calls) = 1
        /\ Len(calls) = 2 =>
               /\ ~IsClassificationCall(calls[2])
               /\ pc \in {"chatting", "retrieving", "fetching", "done"}
               /\ svc = "closed" \/ pc \in {"chatting", "done"}

\* a second call is made only by a handler whose classification call is over
C15_DispatchStep ==
    (endpoint = "chat" /\ Len(calls') > Len(calls)) =>
        /\ pc = "classified"
        /\ Len(calls) = 1
        /\ Len(calls') = 2

\* C15: every /chat request makes at most two collaborator calls, in a fixed
\* order: first exactly one classification call to the Completion Service,
\* then at most one dispatch call; no dispatch call is made before the
\* classification call is over, nor without one.
C15_ClassifyThenDispatch == []C15_CallsInOrder /\ [][C15_DispatchStep]_vars

C15_Witness ==
    /\ endpoint = "chat"
    /\ pc = "done"
    /\ Len(calls) = 2
    /\ IsClassificationCall(calls[1])
    /\ calls[2].to = "http"

\* C17: every success response of /detect_intent to a non-empty message is
\* exactly {intent: i}, i being the intent of the record detect_intent
\* returned and one of general_chat, document_retrieval, plugin_usage; the
\* intent unknown is never returned.
C17_DetectIntentAnswer ==
    (/\ endpoint = "detect_intent"
     /\ pc = "done"
     /\ ~IsBlank(message)
     /\ response.kind = "body") =>
        /\ value # PyNone
        /\ response = Success([intent |-> ClassifiedRecord.intent])
        /\ ClassifiedRecord.intent \in RoutableIntents
        /\ response.body.intent # JStr("unknown")

C17_Witness ==
    /\ endpoint = "detect_intent"
    /\ pc = "done"
    /\ reply = <<Json(JObj(JStr("unknown"), JNum(90), JStr("weather"), JNull))>>
    /\ response = Success([intent |-> JStr("general_chat")])

----------------------------------------------------------------------------
(* Properties of the classifier: what a reply can and cannot do *)

LastOutcome == outcomes[Len(outcomes)]

\* the reply has "Error:" somewhere in its text
CarriesMarker(content) ==
    \E n \in DOMAIN content :
        \/ content[n].t = "text" /\ content[n].s \in MarkerStrings
        \/ content[n].t = "json" /\ JsonHasMarker(content[n].val)

\* the record detect_intent returned was built from the reply it handled
\* last, and that reply is a usable object
BuiltFromLastReply ==
    \E o \in UsableObjects :
        /\ reply \in RepliesCarrying(o)
        /\ value = PyStr(<<Json(C4_Expected(o))>>)

\* C18: a reply with "Error:" anywhere in it is never parsed, valid JSON or
\* not: it is skipped, and the record detect_intent returns after it is built
\* from a later reply with no marker that parses and validates.  A later
\* reply that parses and is no object, or has a list as intent, ends the
\* loop with the default record, built from no reply.
C18_MarkerReplySkipped ==
    /\ (outcomes # <<>> /\ CarriesMarker(reply)) =>
           /\ LastOutcome = "marker"
           /\ pc = "classifying" \/ value = PyNone
    /\ (/\ value # PyNone
        /\ \E n \in DOMAIN outcomes : outcomes[n] = "marker") =>
           /\ LastOutcome = "return"
           /\ BuiltFromLastReply

\* parsed objects that break the schema: an intent outside the four names or
\* a confidence that is no number (a missing key has detect_intent's default)
SchemaBreakingObjects ==
    {o \in FullObjects \cup SparseObjects :
        /\ ~JsonHasMarker(o)
        /\ \/ IfAbsent(o.intent, JStr("unknown")) \notin
                  RoutableIntents \cup {JStr("unknown")}
           \/ IfAbsent(o.confidence, JNum(0)).ty # "num"}

\* C19: a parsed reply with an intent outside the four names, or with a
\* confidence that is no number, is handled as a malformed reply is (it is
\* skipped and the loop goes on), and no record with such an intent or
\* confidence is returned.  A reply whose intent is a list is not skipped:
\* the membership test raises and the default record is returned at once.
C19_SchemaBreachIsSoftFailure ==
    /\ \A o \in SchemaBreakingObjects :
           (outcomes # <<>> /\ reply \in RepliesCarrying(o)) =>
               /\ LastOutcome \in SoftFailures
               /\ pc = "classifying" \/ value = PyNone
    /\ value # PyNone =>
           /\ ClassifiedRecord.intent \in RoutableIntents \cup {JStr("unknown")}
           /\ ClassifiedRecord.confidence.ty = "num"

\* objects detect_intent accepts, a missing intent or confidence included
AcceptedObjects ==
    {o \in (FullObjects \cup SparseObjects) \ SchemaBreakingObjects :
        ~JsonHasMarker(o)}

KnownPlugins == {JStr("weather"), JStr("math"), JStr("time"), JStr("unknown")}

\* C20 as stated: every record detect_intent returns has a plugin among
\* weather, math, time, unknown, whatever the reply carried.  The plugin of
\* the reply is returned as it came.
C20_PluginInSet == value # PyNone => ClassifiedRecord.plugin \in KnownPlugins

\* C20, amended: a record built from a reply has the plugin value of that
\* reply, unchanged and unchecked (unknown when the reply has no plugin
\* key); the default record has plugin unknown.
C20_PluginAsReplied ==
    (value # PyNone /\ outcomes # <<>>) =>
        /\ LastOutcome \in {"return", "except"}
        /\ LastOutcome = "return" =>
               \E o \in AcceptedObjects :
                   /\ reply \in RepliesCarrying(o)
                   /\ ClassifiedRecord.plugin = IfAbsent(o.plugin, JStr("unknown"))
        /\ LastOutcome = "except" => ClassifiedRecord.plugin = JStr("unknown")

C20_Witness ==
    /\ pc = "classified"
    /\ LastOutcome = "return"
    /\ reply = <<Json(JObj(JStr("plugin_usage"), JNum(90), JStr("stocks"),
                           JNull))>>
    /\ ClassifiedRecord.plugin = JStr("stocks")

----------------------------------------------------------------------------
(* Properties of the process: concurrent requests and startup *)

\* the answer to the request of task k when it is the only request, from
\* what the request held and what its own collaborators did
AloneResponse(k) ==
    LET input == strip(k.message)
        val == DetectIntent(k.stream)
        branch == Route(val)
    IN  IF input = <<>>
        THEN HttpError(400, EmptyMessageDetail)
        ELSE IF k.endpoint = "retrieval"
        THEN RetrievalResponse("retrieval", RetrieveByText(input, k.outcome))
        ELSE IF k.endpoint = "detect_intent"
        THEN DetectIntentResponse(val)
        ELSE CASE branch = "general_chat" -> ChatAnswer(k.outcome)
               [] branch = "document_retrieval" ->
                     RetrievalResponse("chat", RetrieveByText(input, k.outcome))
               [] branch = "weather" -> HttpAnswer(k.outcome)
               [] OTHER -> DirectResponse(branch)

\* the three globals change in the step that ends a successful startup and
\* in no other
HandlesWrittenAtStartupOnly ==
    handles' # handles =>
        /\ lifespan = "starting"
        /\ lifespan' = "serving"
        /\ \A t \in Tasks : tasks[t] = IdleTask

\* a step of one handler leaves the locals of every other handler alone
StepIsLocal ==
    \A t \in Tasks :
        tasks'[t] # tasks[t] =>
            \A u \in Tasks \ {t} : tasks'[u] = tasks[u]

C14_AnswersAsAlone ==
    \A t \in Tasks :
        tasks[t].pc = "done" => tasks[t].response = AloneResponse(tasks[t])

\* C14: however the steps of concurrent requests interleave, no handler
\* writes state another handler reads: the three globals are assigned at
\* startup only, the conversation, record and response of a request are its
\* own, and every request is answered as it would be were it alone.
C14_RequestsDoNotInterfere ==
    /\ [][HandlesWrittenAtStartupOnly /\ StepIsLocal]_vars
    /\ []C14_AnswersAsAlone

\* two requests in flight together, of different intents, both answered
C14_Witness ==
    /\ tasks[1].pc = "done"
    /\ tasks[1].endpoint = "chat"
    /\ Len(tasks[1].sent) = 2
    /\ tasks[1].sent[2].to = "http"
    /\ tasks[1].response.kind = "body"
    /\ tasks[2].pc = "chatting"
    /\ tasks[2].sent[2].to = "completion"

AllHandlesSet ==
    /\ handles.SK_KERNEL # PyNone
    /\ handles.CHAT_AGENT # PyNone
    /\ handles.RETRIEVAL_AGENT # PyNone

C16_ServedOnlyAfterStartup ==
    /\ lifespan = "starting" => handles = NoHandles
    /\ lifespan = "failed" =>
           /\ handles = NoHandles
           /\ \A t \in Tasks : tasks[t] = IdleTask
    /\ \A t \in Tasks :
           tasks[t].pc # "idle" =>
               /\ lifespan = "serving"
               /\ AllHandlesSet
               /\ kernel.at = Len(InitSteps)
               /\ handles.SK_KERNEL.services =
                      {"chat_service", "embedding_service", "memory_service"}
               /\ handles.SK_KERNEL.plugins = {"intent_detection", "http"}
               /\ handles.CHAT_AGENT = kernel.chat_agent
               /\ handles.RETRIEVAL_AGENT = kernel.retrieval_agent

\* a process whose startup failed stays as it is
C16_FailedForGood ==
    lifespan = "failed" => UNCHANGED <<lifespan, handles, tasks>>

\* C16: when a step of startup fails, initialization raises, the lifespan
\* handler raises again, the globals stay unset and the process never
\* serves a request; a request is handled only with all three globals set,
\* by one initialization that went through all its steps.
C16_StartupAllOrNothing ==
    []C16_ServedOnlyAfterStartup /\ [][C16_FailedForGood]_vars

\* create_collection of the memory store raised
C16_Witness ==
    /\ lifespan = "failed"
    /\ kernel.at = 2
    /\ kernel.services = {"chat_service", "embedding_service"}
    /\ handles = NoHandles

----------------------------------------------------------------------------
(* Further properties of the classifier and of the router *)

\* C21 as stated: in every record detect_intent returns, city is not null
\* only with intent plugin_usage and plugin weather, whatever the reply
\* carried.  The city of the reply is returned as it came.
C21_CityOnlyForWeather ==
    (value # PyNone /\ ClassifiedRecord.city # JNull) =>
        /\ ClassifiedRecord.intent = JStr("plugin_usage")
        /\ ClassifiedRecord.plugin = JStr("weather")

\* C21, amended: a record built from a reply has the city value of that
\* reply, unchanged and unchecked, whatever its intent and plugin (null when
\* the reply has no city key); the default record has city null.
C21_CityAsReplied ==
    (value # PyNone /\ outcomes # <<>>) =>
        /\ LastOutcome \in {"return", "except"}
        /\ LastOutcome = "return" =>
               \E o \in AcceptedObjects :
                   /\ reply \in RepliesCarrying(o)
                   /\ ClassifiedRecord.city = IfAbsent(o.city, JNull)
        /\ LastOutcome = "except" => ClassifiedRecord.city = JNull

C21_Witness ==
    /\ pc = "classified"
    /\ LastOutcome = "return"
    /\ reply = <<Json(JObj(JStr("general_chat"), JNum(90), JStr("unknown"),
                           JStr("Tokyo")))>>
    /\ ClassifiedRecord.intent = JStr("general_chat")
    /\ ClassifiedRecord.city = JStr("Tokyo")

\* C22: in /chat the last else of the router (the answer "I'm not sure how
\* to help with that.", for an intent that is none of general_chat,
\* document_retrieval, plugin_usage) is never taken: whatever detect_intent
\* hands back, the handler returns before routing or takes one of the three
\* intent branches.
C22_DefaultBranchUnreachable ==
    (endpoint = "chat" /\ pc \in {"classified", "chatting", "retrieving",
                                   "fetching", "done"}) =>
        /\ Route(value) \notin {"not_sure", "error"}
        /\ value = PyNone => Route(value) = "fallback"
        /\ value # PyNone => ClassifiedRecord.intent \in RoutableIntents
        /\ response #
               Success([response |->
                   <<Txt("I'm not sure how to help with that.")>>])

\* a reply with intent unknown, answered from the general_chat branch
C22_Witness ==
    /\ endpoint = "chat"
    /\ pc = "done"
    /\ reply = <<Json(JObj(JStr("unknown"), JNum(90), JStr("unknown"), JNull))>>
    /\ Route(value) = "general_chat"
    /\ Len(calls) = 2
    /\ response.kind = "body"

\* one invocation, of the classifier's conversation, while detect_intent runs
\* and after it
C23_OneInvocation ==
    (endpoint \in {"chat", "detect_intent"}
        /\ pc \in {"classifying", "classified"}) =>
        /\ Len(calls) = 1
        /\ IsClassificationCall(calls[1])
        /\ Len(outcomes) <= MaxReplies

\* an attempt takes one message of the open stream and makes no call
C23_AttemptStep ==
    outcomes' # outcomes =>
        /\ pc = "classifying"
        /\ svc = "open"
        /\ Len(outcomes') = Len(outcomes) + 1
        /\ calls' = calls

\* C23: detect_intent invokes the Completion Service once per call: a soft
\* failure goes on to the next message of the same stream and starts no new
\* invocation, so there are no more attempts than messages in the stream,
\* and detect_intent ends for every finite stream.
C23_OneInvocationAndEnds ==
    /\ []C23_OneInvocation
    /\ [][C23_AttemptStep]_vars
    /\ (pc = "classifying") ~> (pc = "classified")

\* a soft failure, then a record from the next message of the same stream
C23_Witness ==
    /\ pc = "classified"
    /\ Len(calls) = 1
    /\ Len(outcomes) = 2
    /\ outcomes[1] \in SoftFailures
    /\ outcomes[2] = "return"
    /\ value # PyNone

\* C24: a reply that is a schema-conforming JSON object between two
\* three-backtick markers, with any whitespace around and with or without a
\* language tag after the opening marker, gives the record the same object
\* gives when sent bare.  With a tag the text left after the markers are cut
\* off is no JSON and the reply is skipped.
C24_FencedSameAsPlain ==
    \A o \in UsableObjects :
        (/\ outcomes # <<>>
         /\ reply \in {Fenced(<<Json(o)>>), FencedTagged(<<Json(o)>>)}) =>
            /\ pc # "classifying"
            /\ value = DetectIntent(<<<<Json(o)>>>>)

\* the general_chat call of /chat is over and its stream held no message
EmptyChatStream ==
    /\ endpoint = "chat"
    /\ pc = "done"
    /\ value # PyNone
    /\ ClassifiedRecord.intent = JStr("general_chat")
    /\ got = Nothing

\* C25: with intent general_chat and a Completion Service that yields no
\* message for the dispatch call, the /chat handler returns no value
\* (neither {response: ...} nor the answer of another branch) and makes no
\* further call.
C25_EmptyStreamNoEnvelope ==
    EmptyChatStream =>
        /\ response = [kind |-> "none"]
        /\ Len(calls) = 2
        /\ calls[2].to = "completion"
        /\ failure = NoFailure

C25_Witness ==
    /\ EmptyChatStream
    /\ message = <<Txt("hi")>>
    /\ response.kind = "none"
    /\ Len(calls) = 2

----------------------------------------------------------------------------
(* Properties of the agent and of the command-line loop *)

\* the messages the agent puts in place of an exception
FixedErrorTexts ==
    {"Error: Invalid input provided. Please provide a valid chat history.",
     "Error: Chat service is currently unavailable.",
     "Error: Required chat service is not available. Please try again later.",
     "Error: An unexpected issue occurred. Please try again."}

IsFixedError(content) ==
    /\ Len(content) = 1
    /\ content[1].t = "text"
    /\ content[1].s \in FixedErrorTexts

Quotes(content, text) ==
    \E n \in DOMAIN content : content[n].t = "text" /\ content[n].s = text

\* C26: invoke_with_validation hands its consumer no exception.  With a
\* history that is no list of ChatMessageContent it yields one "Error:"
\* message and the service is never called; when the service fails after k
\* messages the consumer sees the k messages and then one "Error:" message,
\* one of the fixed texts, without the text of the failure.
C26_ErrorsBecomeMessages ==
    agent.entry = "invoke_with_validation" =>
        /\ agent.history # "list" =>
               /\ agent.pc = "over"
               /\ agent.service_calls = 0
               /\ Len(agent.seen) = 1
               /\ IsFixedError(agent.seen[1])
        /\ agent.history = "list" => agent.service_calls = 1
        /\ agent.raised # NoException =>
               /\ agent.pc = "over"
               /\ Len(agent.seen) = Len(agent.yielded) + 1
               /\ SubSeq(agent.seen, 1, Len(agent.yielded)) = agent.yielded
               /\ IsFixedError(agent.seen[Len(agent.seen)])
               /\ ~Quotes(agent.seen[Len(agent.seen)], agent.raised.text)
        /\ (agent.history = "list" /\ agent.raised = NoException) =>
               agent.seen = agent.yielded

\* the service fails after two messages
C26_Witness ==
    /\ agent.entry = "invoke_with_validation"
    /\ agent.pc = "over"
    /\ Len(agent.yielded) = 2
    /\ agent.raised = ServiceCrash
    /\ agent.seen =
           agent.yielded \o
               <<<<Txt("Error: An unexpected issue occurred. Please try again.")>>>>

\* the line is "exit" in any case, whitespace around it aside
IsExitLine(line) ==
    \E q \in {<<Txt("exit")>>, <<Txt("EXIT")>>} : IsTrimOf(q, line)

\* a line that is a message of the user
IsUserLine(line) == ~IsBlank(line) /\ ~IsExitLine(line)

Trimmed(line) ==
    CHOOSE q \in {SubSeq(line, a, b) : a, b \in 1..Len(line)} :
        IsTrimOf(q, line)

\* the history the first n lines ought to leave
RECURSIVE HistoryAfter(_)
HistoryAfter(n) ==
    IF n = 0
    THEN <<>>
    ELSE HistoryAfter(n - 1) \o
             (IF IsUserLine(shell.inputs[n])
              THEN <<[role |-> "user", content |-> Trimmed(shell.inputs[n])]>>
                       \o shell.yields[n]
              ELSE <<>>)

C27_HistoryFollowsInputs ==
    /\ shell.history = HistoryAfter(Len(shell.inputs))
    /\ \A n \in DOMAIN shell.inputs :
           ~IsUserLine(shell.inputs[n]) => shell.yields[n] = <<>>
    /\ shell.service_calls =
           Cardinality({n \in DOMAIN shell.inputs : IsUserLine(shell.inputs[n])})
    /\ shell.pc = "ended" <=>
           (shell.inputs # <<>> /\ IsExitLine(shell.inputs[Len(shell.inputs)]))
    /\ \A n \in 1..(Len(shell.inputs) - 1) : ~IsExitLine(shell.inputs[n])

\* the history only grows, and nothing happens once the loop has ended
C27_LoopStep ==
    /\ Len(shell.history') >= Len(shell.history)
    /\ SubSeq(shell.history', 1, Len(shell.history)) = shell.history
    /\ shell.pc = "ended" => shell' = shell

\* C27: in the loop of main.py the history is append-only and holds, in the
\* order of the inputs, one user message for every input that is neither
\* empty nor "exit", each followed by the messages yielded for it; an empty
\* input adds nothing and calls no service; a failure while an input is
\* handled does not end the loop; the loop ends exactly when "exit" (in any
\* case, trimmed) is read, and no service call follows.
C27_ChatLoop == []C27_HistoryFollowsInputs /\ [][C27_LoopStep]_vars

\* a message answered, then EXIT between blanks
C27_Witness ==
    /\ shell.pc = "ended"
    /\ shell.inputs = <<<<Txt("hi")>>, <<WS, Txt("EXIT"), WS>>>>
    /\ shell.service_calls = 1
    /\ shell.history =
           <<[role |-> "user", content |-> <<Txt("hi")>>],
             [role |-> "assistant", content |-> <<Txt("Hello! How can I help?")>>],
             [role |-> "system",
              content |-> <<Txt("Error: An unexpected issue occurred. Please try again.")>>]>>

====
